---- MODULE Spec2Model ----
(***************************************************************************)
(* Model of the asynchronous job monitor of the Xe-Bot frontend:           *)
(*   - pollJobUntilComplete (services/api.ts): the polling engine;         *)
(*   - App.handleSelectPaper / handleProgress / updateStep (App.tsx): the  *)
(*     stage mapper and the processingSteps pipeline state;                *)
(*   - App.handleReset / handleNavigate: the view state.                   *)
(* A session is one invocation of handleSelectPaper; all sessions share    *)
(* the single React state of App (state, error, processingSteps).          *)
(***************************************************************************)
EXTENDS Integers, Sequences, FiniteSets, TLC

(***************************************************************************)
(* Bounds of the model and program constants.                              *)
(***************************************************************************)
\* largest maxAttempts argument a session is started with
MaxAttemptsBound == 3
\* maxAttempts of a session that is given room for one snapshot per stage
ScenarioAttempts == 6

\* const maxConsecutiveErrors = 10 in pollJobUntilComplete
maxConsecutiveErrors == 10

\* the pollInterval argument handleSelectPaper passes (3000 ms)
pollInterval == 3000

\* attempts is only ever compared with maxAttempts (>=), so the model lets it
\* saturate at a value no comparison can tell from a larger one
AttemptsCap == MaxAttemptsBound + maxConsecutiveErrors + 2

Sessions == {"s1", "s2"}

(***************************************************************************)
(* Strings the code inspects character by character are sequences of       *)
(* one-character strings.                                                  *)
(***************************************************************************)
UpperCase == <<"A","B","C","D","E","F","G","H","I","J","K","L","M",
               "N","O","P","Q","R","S","T","U","V","W","X","Y","Z">>
LowerCase == <<"a","b","c","d","e","f","g","h","i","j","k","l","m",
               "n","o","p","q","r","s","t","u","v","w","x","y","z">>

\* String.prototype.toLowerCase, one character
LowerChar(c) ==
  IF \E i \in 1..26 : UpperCase[i] = c
    THEN LowerCase[CHOOSE i \in 1..26 : UpperCase[i] = c]
    ELSE c

\* String.prototype.toLowerCase
toLowerCase(str) == [i \in 1..Len(str) |-> LowerChar(str[i])]

\* String.prototype.includes
includes(str, sub) ==
  \E i \in 0..(Len(str) - Len(sub)) : SubSeq(str, i + 1, i + Len(sub)) = sub

sQueued     == <<"q","u","e","u","e","d">>
sFetching   == <<"f","e","t","c","h","i","n","g">>
sFetch      == <<"f","e","t","c","h">>
sExtracting == <<"e","x","t","r","a","c","t","i","n","g">>
sExtract    == <<"e","x","t","r","a","c","t">>
sSegmenting == <<"s","e","g","m","e","n","t","i","n","g">>
sSegment    == <<"s","e","g","m","e","n","t">>
sAnimating  == <<"a","n","i","m","a","t","i","n","g">>
sAnimat     == <<"a","n","i","m","a","t">>
sCompleted  == <<"c","o","m","p","l","e","t","e","d">>
sFailed     == <<"f","a","i","l","e","d">>

(***************************************************************************)
(* JobStatus: what GET /api/jobs/{id} returns.  The stage field is          *)
(* declared `stage?: string`; the JSON body is not validated, so a stage    *)
(* may be absent, a string, or a value of another type (kind "number").     *)
(***************************************************************************)
NoStage        == [kind |-> "absent", chars |-> <<>>]
NumberStage    == [kind |-> "number", chars |-> <<>>]
StringStage(c) == [kind |-> "string", chars |-> c]

StageTokens ==
  { NoStage, NumberStage,
    StringStage(<<>>),
    StringStage(sQueued),
    StringStage(<<"F","e","t","c","h","i","n","g">>),
    StringStage(sExtracting),
    StringStage(<<"s","e","g","m","e","n","t","_","t","o","p","i","c","s">>),
    StringStage(sAnimating),
    StringStage(sCompleted),
    StringStage(sFailed),
    StringStage(<<"r","e","n","d","e","r">>) }

Lifecycles == {"queued", "processing", "completed", "failed"}
Details    == {"", "Working on section 2"}
Progresses == {0, 50}
JobErrors  == {"", "Render crashed", "Job timed out after 30 minutes"}

\* the error field is only read when status = 'failed'
JobStatus ==
  [status : Lifecycles \ {"failed"}, stage : StageTokens,
   stage_detail : Details, progress : Progresses, error : {""}]
  \cup
  [status : {"failed"}, stage : StageTokens,
   stage_detail : Details, progress : {0}, error : JobErrors]

\* the snapshots the polling engine is run against: every lifecycle, with a
\* stage that is absent, a string, or no string
PollStatuses ==
  { st \in JobStatus : /\ st.stage \in {NoStage, NumberStage, StringStage(sAnimating)}
                       /\ st.stage_detail = ""
                       /\ st.progress = 0 }

\* the snapshots that respect the declared type of stage
TypedStatuses == { st \in JobStatus : st.stage # NumberStage }

\* one stage and every lifecycle, for runs with two sessions
OverlapStatuses ==
  { st \in TypedStatuses :
      /\ st.stage = StringStage(sExtracting)
      /\ st.stage_detail = "" /\ st.progress = 0 /\ st.error = "" }

\* the snapshots of a job that reports its stage only
ScenarioStatuses ==
  { st \in TypedStatuses : st.stage_detail = "" /\ st.progress = 0 /\ st.error = "" }

(***************************************************************************)
(* processingSteps and the stage mapper.                                   *)
(***************************************************************************)
StepStatus == {"pending", "active", "completed", "error"}

InitialSteps ==
  << [id |-> "fetch",   title |-> "Fetching Paper", description |-> "Downloading...",     status |-> "pending"],
     [id |-> "extract", title |-> "Extracting",     description |-> "Analyzing...",       status |-> "pending"],
     [id |-> "segment", title |-> "Segmenting",     description |-> "Breaking down...",   status |-> "pending"],
     [id |-> "animate", title |-> "Animating",      description |-> "Creating visuals...", status |-> "pending"] >>

\* a || b on strings: the empty string is falsy
OrElse(a, b) == IF a # "" THEN a ELSE b

\* updateStep: sets the status of the step with this id, whatever it was;
\* a missing description ("" here) keeps the old one
updateStep(steps, stepId, status, description) ==
  [i \in 1..Len(steps) |->
    IF steps[i].id = stepId
      THEN [steps[i] EXCEPT !.status = status,
                            !.description = OrElse(description, steps[i].description)]
      ELSE steps[i]]

\* the first setProcessingSteps of handleSelectPaper
ResetSteps(steps) ==
  [i \in 1..Len(steps) |->
    [steps[i] EXCEPT !.status = "pending",
                     !.description = IF steps[i].id = "fetch" THEN "Starting..."
                                                              ELSE steps[i].description]]

\* AllCompleted with the map restricted to the steps in progress
AllCompleted_OnlyActive(steps) ==
  [i \in 1..Len(steps) |->
    IF steps[i].status = "active" THEN [steps[i] EXCEPT !.status = "completed"] ELSE steps[i]]

\* steps.map(s => ({...s, status: 'completed'}))
AllCompleted(steps) ==
  [i \in 1..Len(steps) |-> [steps[i] EXCEPT !.status = "completed"]]

\* the 'failed' branch marking the first step that is not finished yet
ActiveToError_FirstUnfinished(steps, detail) ==
  [i \in 1..Len(steps) |->
    IF /\ steps[i].status \in {"active", "pending"}
       /\ \A j \in 1..(i - 1) : steps[j].status \notin {"active", "pending"}
      THEN [steps[i] EXCEPT !.status = "error", !.description = OrElse(detail, "Failed")]
      ELSE steps[i]]

\* the 'failed' branch of handleProgress
ActiveToError(steps, detail) ==
  [i \in 1..Len(steps) |->
    IF steps[i].status = "active"
      THEN [steps[i] EXCEPT !.status = "error", !.description = OrElse(detail, "Failed")]
      ELSE steps[i]]

\* the catch block of handleSelectPaper
ActiveOrPendingToError(steps) ==
  [i \in 1..Len(steps) |->
    IF steps[i].status = "active" \/ steps[i].status = "pending"
      THEN [steps[i] EXCEPT !.status = "error"]
      ELSE steps[i]]

\* handleProgress tolerating a stage of any type
handleProgressThrows_Never(status) == FALSE

\* status.stage?.toLowerCase() throws a TypeError when stage is neither
\* absent nor a string
handleProgressThrows(status) == status.stage.kind = "number"

\* const stage = status.stage?.toLowerCase() || ''
StageOf(status) ==
  IF status.stage.kind = "string" THEN toLowerCase(status.stage.chars) ELSE <<>>

\* template literals `Downloading paper... ${progress}%`
Percent(text, progress) == text \o ToString(progress) \o "%"

\* handleProgress with the segment branch setting fetch to active
handleProgress_SegmentReopensFetch(steps, status) ==
  LET stage    == StageOf(status)
      detail   == status.stage_detail
      progress == status.progress
  IN
  IF stage = sQueued THEN
    updateStep(steps, "fetch", "active", "Queued, waiting to start...")
  ELSE IF stage = sFetching \/ includes(stage, sFetch) THEN
    updateStep(steps, "fetch", "active",
               OrElse(detail, Percent("Downloading paper... ", progress)))
  ELSE IF stage = sExtracting \/ includes(stage, sExtract) THEN
    updateStep(updateStep(steps, "fetch", "completed", "Paper downloaded"),
               "extract", "active", OrElse(detail, "Analyzing content..."))
  ELSE IF stage = sSegmenting \/ includes(stage, sSegment) THEN
    updateStep(updateStep(updateStep(steps,
                 "fetch", "active", ""),
                 "extract", "completed", "Introduction extracted"),
                 "segment", "active", OrElse(detail, "Breaking into topics..."))
  ELSE IF stage = sAnimating \/ includes(stage, sAnimat) THEN
    updateStep(updateStep(updateStep(updateStep(steps,
                 "fetch", "completed", ""),
                 "extract", "completed", ""),
                 "segment", "completed", "Segments created"),
                 "animate", "active", OrElse(detail, Percent("Rendering animations... ", progress)))
  ELSE IF stage = sCompleted THEN
    AllCompleted(steps)
  ELSE IF stage = sFailed THEN
    ActiveToError(steps, detail)
  ELSE steps

\* handleProgress with a default branch that shows some activity
handleProgress_DefaultBranch(steps, status) ==
  LET stage    == StageOf(status)
      detail   == status.stage_detail
      progress == status.progress
  IN
  IF stage = sQueued THEN
    updateStep(steps, "fetch", "active", "Queued, waiting to start...")
  ELSE IF stage = sFetching \/ includes(stage, sFetch) THEN
    updateStep(steps, "fetch", "active",
               OrElse(detail, Percent("Downloading paper... ", progress)))
  ELSE IF stage = sExtracting \/ includes(stage, sExtract) THEN
    updateStep(updateStep(steps, "fetch", "completed", "Paper downloaded"),
               "extract", "active", OrElse(detail, "Analyzing content..."))
  ELSE IF stage = sSegmenting \/ includes(stage, sSegment) THEN
    updateStep(updateStep(updateStep(steps,
                 "fetch", "completed", ""),
                 "extract", "completed", "Introduction extracted"),
                 "segment", "active", OrElse(detail, "Breaking into topics..."))
  ELSE IF stage = sAnimating \/ includes(stage, sAnimat) THEN
    updateStep(updateStep(updateStep(updateStep(steps,
                 "fetch", "completed", ""),
                 "extract", "completed", ""),
                 "segment", "completed", "Segments created"),
                 "animate", "active", OrElse(detail, Percent("Rendering animations... ", progress)))
  ELSE IF stage = sCompleted THEN
    AllCompleted(steps)
  ELSE IF stage = sFailed THEN
    ActiveToError(steps, detail)
  ELSE updateStep(steps, "fetch", "active", "Processing...")

\* handleProgress, for a status it does not throw on
handleProgress(steps, status) ==
  LET stage    == StageOf(status)
      detail   == status.stage_detail
      progress == status.progress
  IN
  IF stage = sQueued THEN
    updateStep(steps, "fetch", "active", "Queued, waiting to start...")
  ELSE IF stage = sFetching \/ includes(stage, sFetch) THEN
    updateStep(steps, "fetch", "active",
               OrElse(detail, Percent("Downloading paper... ", progress)))
  ELSE IF stage = sExtracting \/ includes(stage, sExtract) THEN
    updateStep(updateStep(steps, "fetch", "completed", "Paper downloaded"),
               "extract", "active", OrElse(detail, "Analyzing content..."))
  ELSE IF stage = sSegmenting \/ includes(stage, sSegment) THEN
    updateStep(updateStep(updateStep(steps,
                 "fetch", "completed", ""),
                 "extract", "completed", "Introduction extracted"),
                 "segment", "active", OrElse(detail, "Breaking into topics..."))
  ELSE IF stage = sAnimating \/ includes(stage, sAnimat) THEN
    updateStep(updateStep(updateStep(updateStep(steps,
                 "fetch", "completed", ""),
                 "extract", "completed", ""),
                 "segment", "completed", "Segments created"),
                 "animate", "active", OrElse(detail, Percent("Rendering animations... ", progress)))
  ELSE IF stage = sCompleted THEN
    AllCompleted(steps)
  ELSE IF stage = sFailed THEN
    ActiveToError(steps, detail)
  ELSE steps

(***************************************************************************)
(* pollJobUntilComplete.                                                   *)
(***************************************************************************)
\* What one run of poll's body does to the promise and to the timer queue is
\* a record: the resolve/reject calls it makes, in order, and the delays of
\* its setTimeout calls.
Resolve(status) ==
  [settle |-> <<[state |-> "fulfilled", via |-> "completed", message |-> ""]>>,
   timers |-> <<>>]

Reject(via, message) ==
  [settle |-> <<[state |-> "rejected", via |-> via, message |-> message]>>,
   timers |-> <<>>]

\* SetTimeout as setInterval(poll, delay): the timer is armed again each time
\* it fires, so a second firing is pending beside the tick's own timer
SetTimeout_Interval(delay) == [settle |-> <<>>, timers |-> <<delay, delay>>]

SetTimeout(delay) == [settle |-> <<>>, timers |-> <<delay>>]

TimeoutMessage == "Job timed out after 30 minutes"

\* err instanceof Error ? err.message : 'Unknown error'
ErrText(err) == IF err.isError THEN err.message ELSE "Unknown error"

ConnectionLostMessage(err) ==
  "Connection lost after " \o ToString(maxConsecutiveErrors) \o " retries: " \o ErrText(err)

\* OnStatus with the 'failed' branch falling through to the scheduling of the
\* next tick (a missing else)
OnStatus_FailedFallsThrough(status, att, maxAtt) ==
  IF status.status = "completed" THEN Resolve(status)
  ELSE IF status.status = "failed"
    THEN [settle |-> Reject("failed", OrElse(status.error, "Job failed")).settle,
          timers |-> <<pollInterval>>]
  ELSE IF att >= maxAtt THEN Reject("timeout", TimeoutMessage)
  ELSE SetTimeout(pollInterval)

\* OnStatus with the attempt limit tested before the lifecycle
OnStatus_LimitFirst(status, att, maxAtt) ==
  IF att >= maxAtt THEN Reject("timeout", TimeoutMessage)
  ELSE IF status.status = "completed" THEN Resolve(status)
  ELSE IF status.status = "failed" THEN Reject("failed", OrElse(status.error, "Job failed"))
  ELSE SetTimeout(pollInterval)

\* the if / else-if chain after onProgress returned
OnStatus(status, att, maxAtt) ==
  IF status.status = "completed" THEN Resolve(status)
  ELSE IF status.status = "failed" THEN Reject("failed", OrElse(status.error, "Job failed"))
  ELSE IF att >= maxAtt THEN Reject("timeout", TimeoutMessage)
  ELSE SetTimeout(pollInterval)

\* OnCatch with the retry scheduled before the streak is tested, so that an
\* exhausted streak rejects and still leaves a timer
OnCatch_AlwaysRetries(errors, err) ==
  IF errors < maxConsecutiveErrors
    THEN SetTimeout(pollInterval * 2)
    ELSE [settle |-> Reject("connection", ConnectionLostMessage(err)).settle,
          timers |-> <<pollInterval * 2>>]

\* OnCatch rejecting one failure later
OnCatch_OneMore(errors, err) ==
  IF errors <= maxConsecutiveErrors
    THEN SetTimeout(pollInterval * 2)
    ELSE Reject("connection", ConnectionLostMessage(err))

\* OnCatch retrying after the base interval
OnCatch_BaseInterval(errors, err) ==
  IF errors < maxConsecutiveErrors
    THEN SetTimeout(pollInterval)
    ELSE Reject("connection", ConnectionLostMessage(err))

\* the catch block, errors being consecutiveErrors after its increment
OnCatch(errors, err) ==
  IF errors < maxConsecutiveErrors
    THEN SetTimeout(pollInterval * 2)
    ELSE Reject("connection", ConnectionLostMessage(err))

\* attempts++ (saturating, see AttemptsCap)
Inc(n) == IF n < AttemptsCap THEN n + 1 ELSE n

FetchErrors ==
  { [isError |-> TRUE,  message |-> "Network Error"],
    [isError |-> FALSE, message |-> ""] }

\* what handleProgress throws on a stage that is no string
StageTypeError == [isError |-> TRUE, message |-> "toLowerCase is not a function"]

Pending == [state |-> "pending", via |-> "", message |-> ""]

(***************************************************************************)
(* State.                                                                  *)
(***************************************************************************)
VARIABLES
  state,              \* App: AppState
  error,              \* App: error, <<>> for null, <<message>> otherwise
  processingSteps,    \* App: processingSteps
  enabled,            \* the sessions this run may start
  pc,                 \* handleSelectPaper of each session: where it is
  maxAttempts,        \* pollJobUntilComplete: the maxAttempts argument
  attempts,           \* pollJobUntilComplete: let attempts
  consecutiveErrors,  \* pollJobUntilComplete: let consecutiveErrors
  promise,            \* the promise pollJobUntilComplete returned
  inflight,           \* getJobStatus requests awaiting their response
  timers,             \* setTimeout(poll, delay) calls not fired yet: their delays
  requests,           \* history: getJobStatus calls issued
  callbacks,          \* history: onProgress invocations
  settleCalls,        \* history: resolve / reject calls
  onlyFailures,       \* history: every response so far was a fetch failure
  onlyPending,        \* history: every response so far was a queued/processing snapshot
  last,               \* history: the last response of the session
  rank,               \* history: place in the stage order of the last snapshot, see NextRank
  delivered,          \* history: number of the request whose snapshot onProgress got last
  failStreak,         \* history: fetch failures since the last snapshot
  apiKey,             \* sessionStorage 'xe_bot_api_key': <<>> for none, <<key>> otherwise
  keyRequests         \* history: POST /api/keys/create calls issued

vars == << state, error, processingSteps, enabled, pc, maxAttempts, attempts,
           consecutiveErrors, promise, inflight, timers, requests, callbacks,
           settleCalls, onlyFailures, onlyPending, last, rank, delivered, failStreak,
           apiKey, keyRequests >>

appVars  == << state, error, processingSteps >>
pollVars == << maxAttempts, attempts, consecutiveErrors, promise, inflight, timers >>
histVars == << requests, callbacks, settleCalls, onlyFailures, onlyPending, last,
              rank, delivered, failStreak >>
keyVars  == << apiKey, keyRequests >>

\* last: the kind of response, the lifecycle of a snapshot, and whether its
\* stage was absent or a string
NoResponse == [kind |-> "none", status |-> "", typed |-> TRUE]
FailedFetch == [kind |-> "error", status |-> "", typed |-> TRUE]
Snapshot(status) ==
  [kind |-> "snapshot", status |-> status.status, typed |-> status.stage # NumberStage]

\* the place of a stage in the order handleProgress tests it: queued, fetch,
\* extract, segment, animat, then completed / failed; 0 for any other stage
StageRank(status) ==
  LET stage == StageOf(status) IN
  IF stage = sQueued THEN 1
  ELSE IF includes(stage, sFetch) THEN 2
  ELSE IF includes(stage, sExtract) THEN 3
  ELSE IF includes(stage, sSegment) THEN 4
  ELSE IF includes(stage, sAnimat) THEN 5
  ELSE IF stage = sCompleted \/ stage = sFailed THEN 6
  ELSE 0

\* rank: 0 before the first snapshot; the rank of the last snapshot while
\* every snapshot so far had a rank above its predecessor's; -1 afterwards
NextRank(r, status) ==
  IF r >= 0 /\ StageRank(status) > r THEN StageRank(status) ELSE -1

\* the application as mounted, no paper selected yet
Mounted ==
  /\ state = "home"
  /\ error = <<>>
  /\ processingSteps = InitialSteps
  /\ pc = [s \in Sessions |-> "idle"]
  /\ maxAttempts = [s \in Sessions |-> 1]
  /\ attempts = [s \in Sessions |-> 0]
  /\ consecutiveErrors = [s \in Sessions |-> 0]
  /\ promise = [s \in Sessions |-> Pending]
  /\ inflight = [s \in Sessions |-> 0]
  /\ timers = [s \in Sessions |-> <<>>]
  /\ requests = [s \in Sessions |-> 0]
  /\ callbacks = [s \in Sessions |-> 0]
  /\ settleCalls = [s \in Sessions |-> 0]
  /\ onlyFailures = [s \in Sessions |-> TRUE]
  /\ onlyPending = [s \in Sessions |-> TRUE]
  /\ last = [s \in Sessions |-> NoResponse]
  /\ rank = [s \in Sessions |-> 0]
  /\ delivered = [s \in Sessions |-> 0]
  /\ failStreak = [s \in Sessions |-> 0]
  /\ apiKey = <<>>
  /\ keyRequests = 0

\* one paper is selected during the run
Init == Mounted /\ enabled = {"s1"}

\* two papers are selected during the run, the second one possibly while the
\* job of the first is still watched
OverlapInit == Mounted /\ enabled = Sessions

(***************************************************************************)
(* App handlers.                                                           *)
(***************************************************************************)
\* handleSearch with a query that is no arXiv id: the result list is shown
handleSearch ==
  /\ state = "home"
  /\ state' = "results"
  /\ error' = <<>>
  /\ UNCHANGED << processingSteps, enabled, pc, pollVars, histVars, keyVars >>

\* handleSelectPaper up to the first await inside startAsyncProcess: the
\* key-creation request of ensureApiKey when no key is stored, POST
\* /api/generate otherwise; reached from a
\* PaperCard of the result list or from handleSearch with an arXiv id
handleSelectPaper(s) ==
  /\ s \in enabled
  /\ pc[s] = "idle"
  /\ state \in {"home", "results"}
  /\ state' = "processing"
  /\ error' = <<>>
  /\ processingSteps' =
       updateStep(ResetSteps(processingSteps), "fetch", "active", "Starting job...")
  /\ IF apiKey = <<>>
       THEN /\ pc' = [pc EXCEPT ![s] = "keying"]
            /\ keyRequests' = keyRequests + 1
       ELSE /\ pc' = [pc EXCEPT ![s] = "starting"]
            /\ UNCHANGED keyRequests
  /\ UNCHANGED << enabled, pollVars, histVars, apiKey >>

\* the key the server creates for the key-creation request of session s: a
\* new one for each request
KeyFor(s) == "key_" \o s

\* the key-creation request of ensureApiKey returns: the key is stored and
\* startAsyncProcess goes on to POST /api/generate, which the interceptor
\* signs with the stored key
KeyReturns(s, key) ==
  /\ pc[s] = "keying"
  /\ apiKey' = <<key>>
  /\ pc' = [pc EXCEPT ![s] = "starting"]
  /\ UNCHANGED << appVars, enabled, pollVars, histVars, keyRequests >>

\* StartFails with a catch block that marks the steps and sets no error
StartFails_NoError(s, err) ==
  /\ pc[s] \in {"keying", "starting"}
  /\ processingSteps' = ActiveOrPendingToError(processingSteps)
  /\ pc' = [pc EXCEPT ![s] = "returned"]
  /\ UNCHANGED << state, error, enabled, pollVars, histVars, keyVars >>

\* startAsyncProcess rejects: the catch block of handleSelectPaper
StartFails(s, err) ==
  /\ pc[s] \in {"keying", "starting"}
  /\ error' = << IF err.isError THEN err.message ELSE "Processing failed" >>
  /\ processingSteps' = ActiveOrPendingToError(processingSteps)
  /\ pc' = [pc EXCEPT ![s] = "returned"]
  /\ UNCHANGED << state, enabled, pollVars, histVars, keyVars >>

\* startAsyncProcess returns a job id: pollJobUntilComplete is called and
\* poll() runs up to `await getJobStatus(jobId)`
StartReturns(s, n) ==
  /\ pc[s] = "starting"
  /\ processingSteps' =
       updateStep(processingSteps, "fetch", "active", "Job started, fetching paper...")
  /\ pc' = [pc EXCEPT ![s] = "polling"]
  /\ maxAttempts' = [maxAttempts EXCEPT ![s] = n]
  /\ attempts' = [attempts EXCEPT ![s] = Inc(0)]
  /\ consecutiveErrors' = [consecutiveErrors EXCEPT ![s] = 0]
  /\ inflight' = [inflight EXCEPT ![s] = @ + 1]
  /\ requests' = [requests EXCEPT ![s] = Inc(@)]
  /\ UNCHANGED << state, error, enabled, promise, timers, callbacks, settleCalls,
                  onlyFailures, onlyPending, last, rank, delivered, failStreak, keyVars >>

\* the rest of poll's body once the response is there, and, when it settles
\* the promise, the continuation of handleSelectPaper after its await
Continue(s, steps, errors, eff) ==
  LET settles == promise[s].state = "pending" /\ eff.settle # <<>>
      p       == IF settles THEN Head(eff.settle) ELSE promise[s]
  IN
  /\ consecutiveErrors' = [consecutiveErrors EXCEPT ![s] = errors]
  /\ promise' = [promise EXCEPT ![s] = p]
  /\ settleCalls' = [settleCalls EXCEPT ![s] = @ + Len(eff.settle)]
  /\ timers' = [timers EXCEPT ![s] = @ \o eff.timers]
  /\ inflight' = [inflight EXCEPT ![s] = @ - 1]
  /\ IF settles /\ p.state = "fulfilled" THEN
       /\ processingSteps' = AllCompleted(steps)
       /\ state' = "completed"
       /\ error' = error
       /\ pc' = [pc EXCEPT ![s] = "returned"]
     ELSE IF settles THEN
       /\ processingSteps' = ActiveOrPendingToError(steps)
       /\ state' = state
       /\ error' = <<p.message>>
       /\ pc' = [pc EXCEPT ![s] = "returned"]
     ELSE
       /\ processingSteps' = steps
       /\ UNCHANGED << state, error, pc >>

\* getJobStatus returns a JobStatus
FetchSucceeds(s, status) ==
  /\ inflight[s] > 0
  /\ LET threw == handleProgressThrows(status)
     IN Continue(s,
                 IF threw THEN processingSteps ELSE handleProgress(processingSteps, status),
                 IF threw THEN 1 ELSE 0,
                 IF threw THEN OnCatch(1, StageTypeError)
                          ELSE OnStatus(status, attempts[s], maxAttempts[s]))
  /\ callbacks' = [callbacks EXCEPT ![s] = Inc(@)]
  /\ onlyFailures' = [onlyFailures EXCEPT ![s] = FALSE]
  /\ onlyPending' = [onlyPending EXCEPT ![s] = @ /\ status.status \in {"queued", "processing"}]
  /\ last' = [last EXCEPT ![s] = Snapshot(status)]
  /\ rank' = [rank EXCEPT ![s] = NextRank(@, status)]
  /\ delivered' = [delivered EXCEPT ![s] = requests[s]]
  /\ failStreak' = [failStreak EXCEPT ![s] = 0]
  /\ UNCHANGED << enabled, maxAttempts, attempts, requests, keyVars >>

\* FetchFails with the catch block reporting to onProgress as well
FetchFails_ReportsProgress(s, err) ==
  /\ inflight[s] > 0
  /\ Continue(s, processingSteps, consecutiveErrors[s] + 1,
              OnCatch(consecutiveErrors[s] + 1, err))
  /\ callbacks' = [callbacks EXCEPT ![s] = Inc(@)]
  /\ onlyPending' = [onlyPending EXCEPT ![s] = FALSE]
  /\ last' = [last EXCEPT ![s] = FailedFetch]
  /\ failStreak' = [failStreak EXCEPT ![s] = @ + 1]
  /\ UNCHANGED << enabled, maxAttempts, attempts, requests, onlyFailures,
                  rank, delivered, keyVars >>

\* getJobStatus rejects (network error, HTTP error, 60 s timeout)
FetchFails(s, err) ==
  /\ inflight[s] > 0
  /\ Continue(s, processingSteps, consecutiveErrors[s] + 1,
              OnCatch(consecutiveErrors[s] + 1, err))
  /\ onlyPending' = [onlyPending EXCEPT ![s] = FALSE]
  /\ last' = [last EXCEPT ![s] = FailedFetch]
  /\ failStreak' = [failStreak EXCEPT ![s] = @ + 1]
  /\ UNCHANGED << enabled, maxAttempts, attempts, requests, callbacks, onlyFailures,
                  rank, delivered, keyVars >>

\* a timer set by setTimeout(poll, delay) fires: poll() up to its await
TimerFires(s) ==
  /\ timers[s] # <<>>
  /\ timers' = [timers EXCEPT ![s] = Tail(@)]
  /\ attempts' = [attempts EXCEPT ![s] = Inc(@)]
  /\ inflight' = [inflight EXCEPT ![s] = @ + 1]
  /\ requests' = [requests EXCEPT ![s] = Inc(@)]
  /\ UNCHANGED << appVars, enabled, pc, maxAttempts, consecutiveErrors, promise,
                  callbacks, settleCalls, onlyFailures, onlyPending, last,
                  rank, delivered, failStreak, keyVars >>

\* handleReset (the search, video and title state is not modelled)
handleReset ==
  /\ state' = "home"
  /\ error' = <<>>
  /\ UNCHANGED << processingSteps, enabled, pc, pollVars, histVars, keyVars >>

\* the buttons that call handleReset: Back (gallery, results), Try again
\* (processing with an error), New (completed)
ClickReset ==
  /\ \/ state \in {"gallery", "results", "completed"}
     \/ state = "processing" /\ error # <<>>
  /\ handleReset

\* handleNavigate, from the Header, which is always rendered
handleNavigate(page) ==
  IF page = "gallery"
    THEN /\ state' = "gallery"
         /\ UNCHANGED << error, processingSteps, enabled, pc, pollVars, histVars, keyVars >>
    ELSE handleReset

\* the user's moves
UserNext ==
  \/ handleSearch
  \/ \E s \in Sessions : handleSelectPaper(s)
  \/ ClickReset
  \/ \E page \in {"home", "gallery", "about"} : handleNavigate(page)

\* The polling engine against every kind of response, the snapshots drawn
\* from PollStatuses.
Next ==
  \/ UserNext
  \/ \E s \in Sessions : KeyReturns(s, KeyFor(s))
  \/ \E s \in Sessions, e \in FetchErrors : StartFails(s, e)
  \/ \E s \in Sessions, n \in 1..MaxAttemptsBound : StartReturns(s, n)
  \/ \E s \in Sessions, st \in PollStatuses : FetchSucceeds(s, st)
  \/ \E s \in Sessions, e \in FetchErrors : FetchFails(s, e)
  \/ \E s \in Sessions : TimerFires(s)

Spec == Init /\ [][Next]_vars

\* The stage mapper against every snapshot of JobStatus, on a connection
\* that does not fail.
StepsNext ==
  \/ UserNext
  \/ \E s \in Sessions : KeyReturns(s, KeyFor(s))
  \/ \E s \in Sessions, e \in FetchErrors : StartFails(s, e)
  \/ \E s \in Sessions, n \in 1..MaxAttemptsBound : StartReturns(s, n)
  \/ \E s \in Sessions, st \in TypedStatuses : FetchSucceeds(s, st)
  \/ \E s \in Sessions : TimerFires(s)

StepsSpec == Init /\ [][StepsNext]_vars

\* One job watched from submission to its end with room for a snapshot of
\* every stage, the user staying on the processing view.
ScenarioNext ==
  \/ \E s \in Sessions : handleSelectPaper(s)
  \/ \E s \in Sessions : KeyReturns(s, KeyFor(s))
  \/ \E s \in Sessions, e \in FetchErrors : StartFails(s, e)
  \/ \E s \in Sessions : StartReturns(s, ScenarioAttempts)
  \/ \E s \in Sessions, st \in ScenarioStatuses : FetchSucceeds(s, st)
  \/ \E s \in Sessions : TimerFires(s)

ScenarioSpec == Init /\ [][ScenarioNext]_vars

\* Two sessions, the user free to leave the processing view and to select
\* the second paper at any time.
OverlapNext ==
  \/ UserNext
  \/ \E s \in Sessions : KeyReturns(s, KeyFor(s))
  \/ \E s \in Sessions, e \in FetchErrors : StartFails(s, e)
  \/ \E s \in Sessions, n \in 1..MaxAttemptsBound : StartReturns(s, n)
  \/ \E s \in Sessions, st \in OverlapStatuses : FetchSucceeds(s, st)
  \/ \E s \in Sessions : TimerFires(s)

OverlapSpec == OverlapInit /\ [][OverlapNext]_vars

\* The polling engine with a progress callback that returns normally on every
\* snapshot, the user staying on the processing view.
CalmNext ==
  \/ \E s \in Sessions : handleSelectPaper(s)
  \/ \E s \in Sessions : KeyReturns(s, KeyFor(s))
  \/ \E s \in Sessions, e \in FetchErrors : StartFails(s, e)
  \/ \E s \in Sessions, n \in 1..MaxAttemptsBound : StartReturns(s, n)
  \/ \E s \in Sessions, st \in PollStatuses \cap TypedStatuses : FetchSucceeds(s, st)
  \/ \E s \in Sessions, e \in FetchErrors : FetchFails(s, e)
  \/ \E s \in Sessions : TimerFires(s)

CalmSpec == Init /\ [][CalmNext]_vars

\* The polling engine while the user stays on the processing view.
WatchNext ==
  \/ \E s \in Sessions : handleSelectPaper(s)
  \/ \E s \in Sessions : KeyReturns(s, KeyFor(s))
  \/ \E s \in Sessions, e \in FetchErrors : StartFails(s, e)
  \/ \E s \in Sessions, n \in 1..MaxAttemptsBound : StartReturns(s, n)
  \/ \E s \in Sessions, st \in PollStatuses : FetchSucceeds(s, st)
  \/ \E s \in Sessions, e \in FetchErrors : FetchFails(s, e)
  \/ \E s \in Sessions : TimerFires(s)

\* WatchNext with the scheduling the runtime guarantees: a timer that is set
\* fires, and a request that was sent gets its response or its error (axios
\* gives up after 60 s)
FairSpec ==
  /\ Init /\ [][WatchNext]_vars
  /\ \A s \in Sessions : WF_vars(TimerFires(s))
  /\ \A s \in Sessions :
       WF_vars((\E st \in PollStatuses : FetchSucceeds(s, st))
                 \/ (\E e \in FetchErrors : FetchFails(s, e)))

(***************************************************************************)
(* Properties.                                                             *)
(***************************************************************************)
Settled(s) == promise[s].state # "pending"

\* a response (snapshot or error) of session s is handled in this step
Receives(s) == inflight'[s] < inflight[s]

\* a snapshot of this lifecycle, with a well-typed stage, is handled in this step
ReceivesSnapshot(s, lifecycle) ==
  /\ Receives(s)
  /\ last'[s].kind = "snapshot"
  /\ last'[s].status = lifecycle
  /\ last'[s].typed

StepIndex == 1..Len(processingSteps)

\* C1: the promise of a session is settled by at most one resolve/reject
\* call, and once it is settled the session has no timer set and no request
\* in flight, so no further tick can run.
C1_OneOutcome ==
  \A s \in Sessions :
    /\ settleCalls[s] <= 1
    /\ settleCalls[s] = (IF Settled(s) THEN 1 ELSE 0)
    /\ Settled(s) => timers[s] = <<>> /\ inflight[s] = 0

\* reached: a session rejected by an exhausted streak of fetch failures
C1_Witness ==
  \E s \in Sessions :
    /\ promise[s].via = "connection"
    /\ settleCalls[s] = 1
    /\ requests[s] > 1

\* C2: under FairSpec a session that polls eventually has its promise
\* settled (succeeded, failed or timed out).
C2_EventuallySettles ==
  \A s \in Sessions : (pc[s] = "polling") ~> Settled(s)

\* C3: a step that is completed or error is not set back to pending or
\* active by anything that happens within the session (the steps are reset
\* only where handleSelectPaper starts a session).
C3_Monotonic ==
  [][ (\A s \in Sessions : pc[s] = "idle" => pc'[s] = "idle")
        => \A i \in StepIndex :
             processingSteps[i].status \in {"completed", "error"}
               => processingSteps'[i].status \in {"completed", "error"} ]_vars

\* C4: a session has at most one tick pending at any time: one request in
\* flight or one timer set, never both and never two of either.
C4_OneTick ==
  \A s \in Sessions : inflight[s] + Len(timers[s]) <= 1

\* reached: the third request of a session is in flight, alone
C4_Witness ==
  \E s \in Sessions : inflight[s] = 1 /\ requests[s] = 3 /\ timers[s] = <<>>

\* C5: once the promise of a session is settled, no step invokes its
\* progress callback or issues a status request for it.
C5_QuietAfterOutcome ==
  [][ \A s \in Sessions :
        Settled(s) => /\ callbacks'[s] = callbacks[s]
                      /\ requests'[s] = requests[s]
                      /\ inflight'[s] = inflight[s]
                      /\ timers'[s] = timers[s] ]_vars

\* reached: a session was settled after several callbacks, and the user has
\* moved on since
C5_Witness ==
  \E s \in Sessions : Settled(s) /\ callbacks[s] >= 2 /\ state = "gallery"

\* C6: a session whose every response is a queued/processing snapshot
\* issues exactly maxAttempts requests, invokes the callback for each, and
\* is rejected as timed out on the last one.
C6_TimesOutAfterMaxAttempts ==
  \A s \in Sessions :
    (pc[s] \in {"polling", "returned"} /\ onlyPending[s] /\ requests[s] > 0) =>
      /\ requests[s] <= maxAttempts[s]
      /\ callbacks[s] = requests[s] - inflight[s]
      /\ Settled(s) => promise[s].via = "timeout" /\ requests[s] = maxAttempts[s]
      /\ (requests[s] = maxAttempts[s] /\ inflight[s] = 0) => promise[s].via = "timeout"

\* C7: a session whose first maxConsecutiveErrors requests all fail is not
\* rejected during that streak, and issues the request after it.
C7_ToleratesStreak ==
  \A s \in Sessions :
    (onlyFailures[s] /\ requests[s] <= maxConsecutiveErrors) =>
      /\ ~Settled(s)
      /\ (requests[s] = maxConsecutiveErrors /\ inflight[s] = 0) => timers[s] # <<>>

\* C8: a session whose every request failed is rejected only on request
\* maxConsecutiveErrors + 1, as a lost connection, with the reason citing
\* maxConsecutiveErrors retries and the last error.
C8_FailsAfterOneMore ==
  \A s \in Sessions :
    (onlyFailures[s] /\ Settled(s) /\ requests[s] > 0) =>
      /\ promise[s].via = "connection"
      /\ requests[s] = maxConsecutiveErrors + 1
      /\ \E e \in FetchErrors : promise[s].message = ConnectionLostMessage(e)

\* C9: when a failed snapshot ends a session while a step is active, the
\* step that was active is error afterwards, the completed steps are still
\* completed, the pending steps are still pending, and nothing else is error.
C9_FailureMarksActiveOnly ==
  [][ \A s \in Sessions :
        ( /\ ReceivesSnapshot(s, "failed")
          /\ promise'[s].state = "rejected"
          /\ \E i \in StepIndex : processingSteps[i].status = "active" )
        => \A i \in StepIndex :
             /\ processingSteps[i].status = "active" => processingSteps'[i].status = "error"
             /\ processingSteps[i].status = "completed" => processingSteps'[i].status = "completed"
             /\ processingSteps[i].status = "pending" => processingSteps'[i].status = "pending"
             /\ processingSteps'[i].status = "error"
                  => processingSteps[i].status \in {"active", "error"} ]_vars

\* C10: the step that handles a snapshot with lifecycle completed (its stage
\* absent or any string) leaves all four steps completed, whatever they were.
C10_CompletedCompletesAll ==
  [][ \A s \in Sessions :
        ReceivesSnapshot(s, "completed")
          => \A i \in StepIndex : processingSteps'[i].status = "completed" ]_vars

\* reached: a completed snapshot arrived on a later tick and every step is
\* completed
C10_Witness ==
  \E s \in Sessions :
    /\ last[s].kind = "snapshot" /\ last[s].status = "completed" /\ last[s].typed
    /\ requests[s] >= 2
    /\ promise[s].state = "fulfilled"
    /\ \A i \in StepIndex : processingSteps[i].status = "completed"


\* C11: within one session a step whose status is completed or error keeps
\* exactly that status across every later snapshot and across the handling of
\* the terminal outcome (error never becomes completed, pending or active;
\* completed never becomes error, pending or active).
C11_TerminalStepsFrozen ==
  [][\A s \in Sessions :
       (pc[s] = "polling" /\ pc'[s] \in {"polling", "returned"}) =>
         \A i \in StepIndex :
           processingSteps[i].status \in {"completed", "error"} =>
             processingSteps'[i].status = processingSteps[i].status]_vars

\* C12: while the stage tokens of the snapshots of a session strictly advance
\* through queued, fetch, extract, segment, animat, completed / failed
\* (stages may be skipped), handling a snapshot never takes a step from
\* completed or error back to pending or active.
C12_AdvancingNeverRegresses ==
  [][\A s \in Sessions :
       (Receives(s) /\ last'[s].kind = "snapshot" /\ rank'[s] > 0) =>
         \A i \in StepIndex :
           processingSteps[i].status \in {"completed", "error"} =>
             processingSteps'[i].status \in {"completed", "error"}]_vars

\* three stages passed in order, two steps already completed
C12_Witness ==
  \E s \in Sessions :
    /\ callbacks[s] = 3 /\ rank[s] = 4
    /\ processingSteps[1].status = "completed"
    /\ processingSteps[2].status = "completed"
    /\ processingSteps[3].status = "active"

\* the snapshots as handleProgress sees them: it reads stage, stage_detail
\* and progress only
MapperInputs == { st \in TypedStatuses : st.status = "processing" /\ st.error = "" }

\* C13: the stage mapper is idempotent: in every pipeline state and for every
\* snapshot it accepts, applying the snapshot twice gives the same steps
\* (statuses and descriptions) as applying it once.
C13_MapperIdempotent ==
  \A st \in MapperInputs :
    handleProgress(handleProgress(processingSteps, st), st)
      = handleProgress(processingSteps, st)

\* a pipeline state in mid-run with a finished, a failed and a running step,
\* on which some snapshot still has an effect
C13_Witness ==
  /\ \E s \in Sessions : pc[s] = "polling" /\ callbacks[s] >= 2
  /\ \E i, j, k \in StepIndex :
       /\ processingSteps[i].status = "completed"
       /\ processingSteps[j].status = "error"
       /\ processingSteps[k].status = "active"
  /\ \E st \in MapperInputs : handleProgress(processingSteps, st) # processingSteps

\* the steps as the scenario of C14 expects them while step k is running
StepsAt(k) ==
  \A i \in StepIndex :
    processingSteps[i].status =
      IF i < k THEN "completed" ELSE IF i = k THEN "active" ELSE "pending"

\* C14: a job whose snapshots carry the stages queued, fetching, extracting,
\* segmenting, animating in this order, followed by a completed snapshot: after
\* each of the first five exactly the step the stage names is active (fetch
\* for queued), the steps before it are completed and the steps after it are
\* pending; after the last one all four steps are completed and the session
\* has resolved as succeeded.
C14_Scenario ==
  [][\A s \in Sessions :
       (Receives(s) /\ rank[s] \in 0..5 /\ callbacks[s] = rank[s]) =>
         /\ (rank'[s] \in 1..5 /\ rank'[s] = rank[s] + 1 /\ ~Settled(s)') =>
              \E k \in StepIndex :
                k = (IF rank'[s] = 1 THEN 1 ELSE rank'[s] - 1) /\ StepsAt(k)'
         /\ (rank[s] = 5 /\ ReceivesSnapshot(s, "completed")) =>
              /\ \A i \in StepIndex : processingSteps'[i].status = "completed"
              /\ promise'[s].state = "fulfilled"
              /\ state' = "completed"]_vars

\* the whole scenario has run: six snapshots, each one stage further
C14_Witness ==
  \E s \in Sessions :
    /\ callbacks[s] = 6 /\ rank[s] = 6 /\ last[s].status = "completed"
    /\ promise[s].state = "fulfilled"

\* C15: onProgress is invoked exactly once for every snapshot that was
\* fetched and never for a fetch that failed; the snapshot it gets belongs to
\* the only outstanding request of the session, which is a later request than
\* the one of the previous invocation, so that the invocations follow the
\* order of the requests and never overlap. (Stated for the requests the
\* model numbers, those below AttemptsCap.)
C15_OneCallbackPerSnapshot ==
  [][\A s \in Sessions :
       requests[s] < AttemptsCap =>
         IF Receives(s) /\ last'[s].kind = "snapshot"
           THEN /\ callbacks'[s] = callbacks[s] + 1
                /\ inflight[s] = 1
                /\ delivered[s] < requests[s]
                /\ delivered'[s] = requests[s]
           ELSE /\ callbacks'[s] = callbacks[s]
                /\ delivered'[s] = delivered[s]]_vars

\* two snapshots reported with a failed fetch between them
C15_Witness ==
  \E s \in Sessions :
    /\ callbacks[s] = 2 /\ requests[s] = 3 /\ delivered[s] = 3
    /\ last[s].kind = "snapshot"

\* C16: a snapshot whose lifecycle is failed ends the session on the tick that
\* receives it, whatever attempts and consecutiveErrors are: the promise is
\* rejected with the error of the snapshot, or 'Job failed' when it has none,
\* no retry is scheduled and no request is left outstanding.
C16_FailedIsTerminal ==
  [][\A s \in Sessions :
       (Receives(s) /\ ~Settled(s)
          /\ last'[s].kind = "snapshot" /\ last'[s].status = "failed") =>
         /\ promise'[s].state = "rejected"
         /\ promise'[s].via = "failed"
         /\ promise'[s].message \in (JobErrors \ {""}) \cup {"Job failed"}
         /\ timers'[s] = <<>>
         /\ inflight'[s] = 0]_vars

\* C17: fetch failures short of the limit are absorbed: such a failure
\* settles nothing and invokes no callback; and because a fetched snapshot
\* ends the streak, a session is rejected with the 'Connection lost' reason
\* only when its latest maxConsecutiveErrors requests all failed, with no
\* fetched snapshot among them.
C17_OnlyUnbrokenStreakLosesConnection ==
  [][\A s \in Sessions :
       (Receives(s) /\ ~Settled(s)) =>
         /\ (last'[s].kind = "error" /\ failStreak'[s] < maxConsecutiveErrors) =>
              /\ promise'[s] = promise[s]
              /\ callbacks'[s] = callbacks[s]
         /\ promise'[s].via = "connection" =>
              failStreak'[s] = maxConsecutiveErrors]_vars

\* what the caller of pollJobUntilComplete gets from a session that timed out
TimedOutOutcome == [state |-> "rejected", message |-> TimeoutMessage]

\* C18: the caller can tell a timeout from the other two failures whatever the
\* remote error message and the fetch error text are: what a session delivers
\* after a remote job failure or after an exhausted retry streak (settled
\* state and message, all that an Error carries) is never what a session
\* that timed out delivers.
C18_TimedOutIsDistinct ==
  \A s \in Sessions :
    promise[s].via \in {"failed", "connection"} =>
      [state |-> promise[s].state, message |-> promise[s].message] # TimedOutOutcome

\* the user has left the processing view that session s put up (handleReset
\* or handleNavigate) while s is polling
Abandoned(s) == pc[s] = "polling" /\ state # "processing"

\* C19: once the caller has abandoned a session in progress, the session
\* sends no further request, invokes no callback, leaves the pipeline state
\* as it is and never switches the view to 'completed'.
C19_AbandonedIsSilent ==
  [][\A s \in Sessions :
       Abandoned(s) =>
         /\ requests'[s] = requests[s]
         /\ callbacks'[s] = callbacks[s]
         /\ processingSteps' = processingSteps
         /\ (state' = "completed" => state = "completed")]_vars

\* session s is between its submission and its outcome
Live(s) == pc[s] \in {"keying", "starting", "polling"}

\* C20: two sessions that overlap share no mutable state: while another
\* session is live, no snapshot and no outcome of a session changes the
\* status of a step of the pipeline state that the other session shows, and
\* none changes the other session's counters.
C20_SessionsIndependent ==
  [][\A s, o \in Sessions :
       (s # o /\ Receives(s) /\ Live(o)) =>
         /\ attempts'[o] = attempts[o]
         /\ consecutiveErrors'[o] = consecutiveErrors[o]
         /\ \A i \in StepIndex :
              processingSteps'[i].status = processingSteps[i].status]_vars

\* C21: in every reachable pipeline state at most one step is active, whatever
\* snapshots came before (repeated and non-advancing stages included), so that
\* the step ProcessingSteps finds as the active one is the only one.
C21_AtMostOneActive ==
  Cardinality({ i \in StepIndex : processingSteps[i].status = "active" }) <= 1

\* C23: the credential is obtained at most once in a client session: however
\* the calls of startAsyncProcess interleave, overlapping ones included, at
\* most one key-creation request is issued, and a key once stored is the key
\* of every later request (it is never replaced).
C23_KeyObtainedOnce ==
  [][/\ keyRequests' <= 1
     /\ apiKey # <<>> => apiKey' = apiKey]_vars

\* handleSelectPaper of s has returned without a call of pollJobUntilComplete
SubmissionFailed(s) == pc[s] = "returned" /\ promise[s] = Pending

\* C22: when the submission of the job fails, the failure is shown to the user
\* as an error, no poll session exists for it (no status request was or will
\* be sent, no timer is set, the progress callback is never invoked), and
\* the submission is not made again.
C22_SubmissionFailureIsFatal ==
  [][\A s \in Sessions :
       /\ (pc[s] \in {"keying", "starting"} /\ pc'[s] = "returned") =>
            /\ error' # <<>>
            /\ SubmissionFailed(s)'
       /\ SubmissionFailed(s)' =>
            /\ requests'[s] = 0 /\ callbacks'[s] = 0
            /\ inflight'[s] = 0 /\ timers'[s] = <<>>
       /\ SubmissionFailed(s) => SubmissionFailed(s)']_vars

\* the submission has failed and the user has gone back to the home view
C22_Witness ==
  \E s \in Sessions :
    SubmissionFailed(s) /\ error = <<>> /\ state = "home"
      /\ processingSteps[1].status = "error"

\* C24: a failed fetch increments consecutiveErrors; while the count is below
\* maxConsecutiveErrors the session sets exactly one timer, of twice the poll
\* interval, and settles nothing; otherwise it is rejected with 'Connection
\* lost after N retries: <error text>', N being maxConsecutiveErrors, and
\* sets no timer. A failed fetch never ends the session as timed out, not
\* even with attempts >= maxAttempts.
C24_FetchFailureBacksOff ==
  [][\A s \in Sessions :
       (Receives(s) /\ ~Settled(s) /\ last'[s].kind = "error") =>
         /\ consecutiveErrors'[s] = consecutiveErrors[s] + 1
         /\ IF consecutiveErrors'[s] < maxConsecutiveErrors
              THEN /\ timers'[s] = << 2 * pollInterval >>
                   /\ ~Settled(s)'
              ELSE /\ timers'[s] = <<>>
                   /\ promise'[s].state = "rejected"
                   /\ promise'[s].via = "connection"
                   /\ promise'[s].message \in
                        { ConnectionLostMessage(e) : e \in FetchErrors }
         /\ promise'[s].via # "timeout"]_vars

\* a streak of failed fetches has run past maxAttempts and ended the session
C24_Witness ==
  \E s \in Sessions :
    /\ promise[s].via = "connection" /\ last[s].kind = "error"
    /\ attempts[s] > maxAttempts[s]
    /\ consecutiveErrors[s] = maxConsecutiveErrors

\* the snapshots that do not end a session, as handleProgress sees them
NonTerminalInputs ==
  { st \in TypedStatuses : st.status \in {"queued", "processing"} /\ st.error = "" }

\* steps 1..(k - 1) completed, step k active, the other statuses as in `old`
TableRow(old, new, k) ==
  \A i \in 1..Len(old) :
    new[i].status = IF i < k THEN "completed"
                    ELSE IF i = k THEN "active"
                    ELSE old[i].status

\* C25: the stage mapping table, for every non-terminal snapshot and every
\* pipeline state of a session that is polling: a stage that contains
\* 'fetch' (in any case) makes fetch active; 'extract' completes fetch and
\* activates extract; 'segment' completes fetch and extract and activates
\* segment; 'animat' completes the first three and activates animate; a
\* snapshot with lifecycle queued (and none of these stages) makes fetch
\* active; no other step changes its status, and the ids, the titles and
\* the order of the steps stay as they are.
C25_MappingTable ==
  (\E s \in Sessions : pc[s] = "polling") =>
    \A st \in NonTerminalInputs :
      LET new == handleProgress(processingSteps, st)
          k   == StageRank(st)
      IN /\ Len(new) = Len(processingSteps)
         /\ \A i \in StepIndex : /\ new[i].id = processingSteps[i].id
                                 /\ new[i].title = processingSteps[i].title
         /\ k \in 2..5 => TableRow(processingSteps, new, k - 1)
         /\ (k \notin 2..5 /\ st.status = "queued") => TableRow(processingSteps, new, 1)

\* C26: a terminal lifecycle goes before the attempt budget: a completed
\* snapshot fetched with attempts >= maxAttempts resolves the session as
\* succeeded and a failed one rejects it as failed; the session times out
\* only on a tick that fetched a queued or processing snapshot with
\* attempts >= maxAttempts.
C26_LifecycleBeforeBudget ==
  [][\A s \in Sessions :
       (Receives(s) /\ ~Settled(s)) =>
         /\ (last'[s].kind = "snapshot" /\ attempts[s] >= maxAttempts[s]) =>
              /\ last'[s].status = "completed" =>
                   promise'[s].state = "fulfilled"
              /\ last'[s].status = "failed" =>
                   promise'[s].state = "rejected" /\ promise'[s].via = "failed"
         /\ promise'[s].via = "timeout" =>
              /\ last'[s].kind = "snapshot"
              /\ last'[s].status \in {"queued", "processing"}
              /\ attempts[s] >= maxAttempts[s]]_vars

\* C27: with a progress callback that does not throw, every tick counts as
\* an attempt, the ticks whose fetch fails included, and a session sends at
\* most maxAttempts + maxConsecutiveErrors - 1 status requests, whatever the
\* order of fetched snapshots and failed fetches.
C27_BoundedRequests ==
  \A s \in Sessions :
    /\ attempts[s] = requests[s]
    /\ requests[s] <= maxAttempts[s] + maxConsecutiveErrors - 1

\* a session that used the whole budget: maxAttempts - 1 snapshots, then
\* failed fetches up to the last request the bound allows
C27_Witness ==
  \E s \in Sessions :
    /\ Settled(s) /\ maxAttempts[s] > 1 /\ callbacks[s] >= maxAttempts[s] - 1
    /\ requests[s] = maxAttempts[s] + maxConsecutiveErrors - 1

\* C28: an exception of the progress callback is handled like a failed fetch
\* of that tick: whatever the lifecycle of the snapshot and whatever attempts
\* is, the session is not settled, consecutiveErrors goes from 0 to 1 and one
\* timer of twice the poll interval is set; the pipeline state stays as it
\* was. Hence a callback that throws on every snapshot keeps the session
\* polling: its count of errors never gets past 1.
C28_CallbackThrowIsFetchFailure ==
  [][\A s \in Sessions :
       (Receives(s) /\ ~Settled(s)
          /\ last'[s].kind = "snapshot" /\ ~last'[s].typed) =>
         /\ ~Settled(s)'
         /\ pc'[s] = "polling"
         /\ consecutiveErrors'[s] = 1
         /\ timers'[s] = << 2 * pollInterval >>
         /\ processingSteps' = processingSteps
         /\ callbacks'[s] = Inc(callbacks[s])]_vars

\* a completed snapshot on which the callback threw, fetched after the
\* attempt budget was used up, with the session still polling
C28_Witness ==
  \E s \in Sessions :
    /\ last[s].kind = "snapshot" /\ ~last[s].typed /\ last[s].status = "completed"
    /\ attempts[s] > maxAttempts[s]
    /\ ~Settled(s) /\ consecutiveErrors[s] = 1

\* C29: when a session ends without success (the submission failed, the job
\* failed, the session timed out or lost the connection), no step is left
\* active or pending: the steps that were active or pending are at error, the
\* steps that were completed are still completed, and so the pipeline state
\* shows an error (some step is at error) and no active step.
C29_NonSuccessLeavesNoOpenStep ==
  [][\A s \in Sessions :
       (Live(s) /\ pc'[s] = "returned" /\ promise'[s].state # "fulfilled") =>
         /\ \A i \in StepIndex :
              processingSteps'[i].status =
                IF processingSteps[i].status = "completed" THEN "completed" ELSE "error"
         /\ \E i \in StepIndex : processingSteps'[i].status = "error"]_vars

\* the non-terminal snapshots whose stage is absent, empty or none of the
\* stages handleProgress knows
UnmatchedInputs ==
  { st \in ScenarioStatuses :
      st.status \in {"queued", "processing"} /\ StageRank(st) = 0 }

====
